---- MODULE Spec2Model ----
(***************************************************************************)
(* Reliable datagram channel (ReliableConnection) layered on a UDP         *)
(* connection (UDPConnection), from halley/net.                            *)
(*                                                                         *)
(* Packets are sequences of bytes (0..255).  A 32-bit ack-bit field is     *)
(* held as the set of its set bit positions.  The two rings of BUFFER_SIZE *)
(* slots are held as maps from the slots that were written to their value; *)
(* a slot outside the map has the value it was constructed with.  Time is  *)
(* an integer number of clock ticks; the latency estimate is kept in the   *)
(* same unit.                                                              *)
(***************************************************************************)
EXTENDS Integers, Sequences, FiniteSets, TLC

VARIABLES
    rc,         \* the ReliableConnection under study (its member fields)
    udp,        \* the UDPConnection that is rc's parent
    now,        \* Clock::now() of the endpoint
    ackLog,     \* per listener: the tags passed to onPacketAcked, in order
    delivered,  \* payloads handed to the application by receive()
    seqTrace,   \* calls of onSeqReceived made so far
    ackCalls,   \* calls of processReceivedAcks made so far
    lastIn,     \* the last call of onReceive: its datagram, the status before
    raised,     \* what of the exception the last receive() threw, "" if none
    sentSizes,  \* sizes of the payloads given to sendTagged (SpecFrame)
    peer,       \* a second ReliableConnection, the remote end (SpecPair)
    wireAB,     \* datagrams sent by rc, not yet polled by peer (SpecPair)
    wireBA,     \* datagrams sent by peer, not yet polled by rc (SpecPair)
    nOps        \* per operation kind: how many times the environment ran it

vars == <<rc, udp, now, ackLog, delivered, seqTrace, ackCalls, lastIn,
          raised, sentSizes, peer, wireAB, wireBA, nOps>>

---------------------------------------------------------------------------
(* Program constants *)

BUFFER_SIZE == 1024
SeqModulus == 65536
HalfSeq == 32768
AckWindow == 32
AckTooOld == 512
MaxSubPacketSize == 2048
MaxDatagram == 1500
NoId == -1

(* lerp factor of reportLatency, 0.2 = LagNum / LagDen *)
LagNum == 2
LagDen == 10

---------------------------------------------------------------------------
(* Bounds of the exploration *)

MaxRecv == 3        \* datagrams the network hands to onReceive (SpecSeq)
MaxNetRecv == 2     \* datagrams the network hands to onReceive (Spec)
MaxSends == 2       \* sendTagged calls (Spec)
MaxTime == 1        \* clock ticks
MaxBursts == 3      \* bursts of sendTagged calls (SpecPair)
MaxPairSent == 514  \* sendTagged calls over all bursts (SpecPair)
MaxPeerSends == 2   \* sendTagged calls of the peer (SpecPair)

Listeners == {"L1", "L2"}

---------------------------------------------------------------------------
(* Bytes and packets *)

U16(x) == x % SeqModulus

U16Bytes(x) == <<U16(x) % 256, U16(x) \div 256>>

BytesU16(lo, hi) == lo + 256 * hi

BitsByte(bits, k) ==
    LET b(i) == IF (8 * k + i) \in bits THEN 2 ^ i ELSE 0
    IN  b(0) + b(1) + b(2) + b(3) + b(4) + b(5) + b(6) + b(7)

U32Bytes(bits) == <<BitsByte(bits, 0), BitsByte(bits, 1), BitsByte(bits, 2), BitsByte(bits, 3)>>

BytesU32(bytes) ==
    IF bytes = <<0, 0, 0, 0>> THEN {}
    ELSE {i \in 0..(AckWindow - 1) : (bytes[(i \div 8) + 1] \div (2 ^ (i % 8))) % 2 = 1}

(* OutboundNetworkPacket::addHeader: the header goes in front *)
AddHeader(packet, header) == header \o packet

(* struct ReliableHeader { u16 sequence; u16 ack; u32 ackBits; } as bytes *)
ReliableHeader(sequence, ack, ackBits) == U16Bytes(sequence) \o U16Bytes(ack) \o U32Bytes(ackBits)

ReliableHeaderSize == 8

---------------------------------------------------------------------------
(* ReliableConnection *)

NoSent == [waiting |-> FALSE, tag |-> 0, timestamp |-> 0]

EmptyRing == [k \in {} |-> 0]

(* receivedSeqs[i] *)
Received(ch, i) == IF i \in DOMAIN ch.receivedSeqs THEN ch.receivedSeqs[i] ELSE 0

(* sentPackets[i] *)
Sent(ch, i) == IF i \in DOMAIN ch.sentPackets THEN ch.sentPackets[i] ELSE NoSent

(* the ring with slot i set to v *)
SetSlot(ring, i, v) == (i :> v) @@ ring

(* highestReceived starts at 0xFFFF, one before sequence 0: the value that *)
(* ReliableHeader gives to a sequence and an ack that name nothing yet     *)
NewReliableConnection ==
    [ sequenceSent    |-> 0,
      highestReceived |-> SeqModulus - 1,
      receivedSeqs    |-> EmptyRing,
      sentPackets     |-> EmptyRing,
      pendingPackets  |-> <<>>,
      ackListeners    |-> <<>>,
      lag             |-> 0,
      lastSend        |-> 0,
      lastReceive     |-> 0 ]

(* generateAckBits: bit i is bit 0 of the ring slot of highestReceived-1-i *)
GenerateAckBits(ch) ==
    {i \in 0..(AckWindow - 1) :
        Received(ch, ((ch.highestReceived - 1 - i) + SeqModulus) % BUFFER_SIZE) % 2 = 1}

(* reportLatency: the first sample is taken as is, later ones are blended *)
ReportLatency(lag, lastMeasuredLag) ==
    IF lag = 0 THEN lastMeasuredLag
    ELSE lag + ((lastMeasuredLag - lag) * LagNum) \div LagDen

(* onAckReceived without the reset of data.waiting *)
OnAckReceivedKeepsWaiting(st, sequence, t) ==
    LET idx  == sequence % BUFFER_SIZE
        data == Sent(st.ch, idx)
    IN  IF data.waiting
        THEN [ ch    |-> [st.ch EXCEPT !.lag = ReportLatency(st.ch.lag, t - data.timestamp)],
               notes |-> IF data.tag # -1 THEN Append(st.notes, data.tag) ELSE st.notes ]
        ELSE st

(* onAckReceived on st = [ch, notes]; notes collects the tags notified *)
OnAckReceived(st, sequence, t) ==
    LET idx  == sequence % BUFFER_SIZE
        data == Sent(st.ch, idx)
    IN  IF data.waiting
        THEN [ ch    |-> [st.ch EXCEPT !.sentPackets[idx].waiting = FALSE,
                                       !.lag = ReportLatency(st.ch.lag, t - data.timestamp)],
               notes |-> IF data.tag # -1 THEN Append(st.notes, data.tag) ELSE st.notes ]
        ELSE st

(* the loop of processReceivedAcks with i running upwards, from lo to hi *)
RECURSIVE AckLoopUpwards(_, _, _, _, _, _)
AckLoopUpwards(st, ack, ackBits, hi, lo, t) ==
    IF \A j \in ackBits :
          j > hi \/ j < lo \/ ~Sent(st.ch, U16(ack - (j + 1)) % BUFFER_SIZE).waiting
    THEN st
    ELSE IF hi = lo THEN OnAckReceived(st, U16(ack - (lo + 1)), t)
    ELSE LET mid == (hi + lo + 1) \div 2
         IN  AckLoopUpwards(AckLoopUpwards(st, ack, ackBits, mid - 1, lo, t),
                            ack, ackBits, hi, mid, t)

(* The loop of processReceivedAcks for i running from hi down to lo: the  *)
(* upper half of the range first, then the lower half, which is the order  *)
(* of the loop.  A range in which no set bit names a waiting slot changes  *)
(* nothing, onAckReceived returning at once for each of its bits.          *)
RECURSIVE AckLoop(_, _, _, _, _, _)
AckLoop(st, ack, ackBits, hi, lo, t) ==
    IF \A j \in ackBits :
          j > hi \/ j < lo \/ ~Sent(st.ch, U16(ack - (j + 1)) % BUFFER_SIZE).waiting
    THEN st
    ELSE IF hi = lo THEN OnAckReceived(st, U16(ack - (hi + 1)), t)
    ELSE LET mid == (hi + lo + 1) \div 2
         IN  AckLoop(AckLoop(st, ack, ackBits, hi, mid, t), ack, ackBits, mid - 1, lo, t)

(* the test of processReceivedAcks with the ring length as its limit *)
AckIsTooOldByRing(sequenceSent, ack) == U16(sequenceSent - ack) > BUFFER_SIZE

AckIsTooOld(sequenceSent, ack) == U16(sequenceSent - ack) > AckTooOld

ProcessReceivedAcks(ch, ack, ackBits, t) ==
    IF AckIsTooOld(ch.sequenceSent, ack)
    THEN [ch |-> ch, notes |-> <<>>]
    ELSE OnAckReceived(AckLoop([ch |-> ch, notes |-> <<>>], ack, ackBits, AckWindow - 1, 0, t),
                       ack, t)

(* the clearing loop of onSeqReceived started one step later and run one step longer *)
LoopRangeFromNext(from, to) ==
    IF from <= to THEN (from + 1)..to
    ELSE ((from + 1)..(BUFFER_SIZE - 1)) \cup (0..to)

(* The values of i in the clearing loop of onSeqReceived: from, from + 1,  *)
(* ... up to but not including to, modulo BUFFER_SIZE.                     *)
LoopRange(from, to) ==
    IF from <= to THEN from..(to - 1)
    ELSE (from..(BUFFER_SIZE - 1)) \cup (0..(to - 1))

(* the ring after that loop: slot (i + BUFFER_SIZE / 2) % BUFFER_SIZE is   *)
(* zeroed for every i of the loop                                          *)
ClearLoop(ring, from, to) ==
    LET zeroed == {(i + BUFFER_SIZE \div 2) % BUFFER_SIZE : i \in LoopRange(from, to)}
        hit    == zeroed \cap DOMAIN ring
    IN  IF hit = {} THEN ring
        ELSE [k \in DOMAIN ring \ hit |-> ring[k]] @@ EmptyRing

(* the window test of onSeqReceived with >= in place of > *)
SkipsTooManyOrEqual(diff) == diff >= BUFFER_SIZE - AckWindow

SkipsTooMany(diff) == diff > BUFFER_SIZE - AckWindow

IsAhead(diff) == diff # 0 /\ diff < HalfSeq

(* receivedSeqs[pos] |= bit, bit being 1 or 2 *)
OrSlot(ring, pos, bit) ==
    LET old == IF pos \in DOMAIN ring THEN ring[pos] ELSE 0
    IN  SetSlot(ring, pos, IF (old \div bit) % 2 = 1 THEN old ELSE old + bit)

(* onSeqReceived with diff taken as a signed difference, without the wrap *)
(* of unsigned short                                                       *)
OnSeqReceivedSigned(ch, seq, isResend, resendOf) ==
    LET bufferPos == seq % BUFFER_SIZE
        resendPos == resendOf % BUFFER_SIZE
        diff      == seq - ch.highestReceived
        ahead     == diff > 0 /\ diff < HalfSeq
    IN  IF ahead /\ SkipsTooMany(diff)
        THEN [ch |-> ch, ret |-> FALSE, closed |-> TRUE]
        ELSE
          LET ch1 == IF ahead
                     THEN [ch EXCEPT !.receivedSeqs =
                                        ClearLoop(@, ch.highestReceived % BUFFER_SIZE, bufferPos),
                                     !.highestReceived = seq]
                     ELSE ch
          IN  IF Received(ch1, bufferPos) # 0 \/ (isResend /\ Received(ch1, resendPos) # 0)
              THEN [ch |-> ch1, ret |-> FALSE, closed |-> FALSE]
              ELSE
                LET m1 == OrSlot(ch1.receivedSeqs, bufferPos, 1)
                    m2 == IF isResend THEN OrSlot(m1, resendPos, 2) ELSE m1
                IN  [ch |-> [ch1 EXCEPT !.receivedSeqs = m2], ret |-> TRUE, closed |-> FALSE]

(* onSeqReceived: [ch, ret, closed] *)
OnSeqReceived(ch, seq, isResend, resendOf) ==
    LET bufferPos == seq % BUFFER_SIZE
        resendPos == resendOf % BUFFER_SIZE
        diff      == U16(seq - ch.highestReceived)
    IN  IF IsAhead(diff) /\ SkipsTooMany(diff)
        THEN [ch |-> ch, ret |-> FALSE, closed |-> TRUE]
        ELSE
          LET ch1 == IF IsAhead(diff)
                     THEN [ch EXCEPT !.receivedSeqs =
                                        ClearLoop(@, ch.highestReceived % BUFFER_SIZE, bufferPos),
                                     !.highestReceived = seq]
                     ELSE ch
          IN  IF Received(ch1, bufferPos) # 0 \/ (isResend /\ Received(ch1, resendPos) # 0)
              THEN [ch |-> ch1, ret |-> FALSE, closed |-> FALSE]
              ELSE
                LET m1 == OrSlot(ch1.receivedSeqs, bufferPos, 1)
                    m2 == IF isResend THEN OrSlot(m1, resendPos, 2) ELSE m1
                IN  [ch |-> [ch1 EXCEPT !.receivedSeqs = m2], ret |-> TRUE, closed |-> FALSE]

(* one record of seqTrace *)
SeqCall(ch, seq, isResend, resendOf, data, r, ch1) ==
    [ seq |-> seq, isResend |-> isResend, resendOf |-> resendOf,
      size |-> Len(data), data |-> data,
      queued |-> Len(ch1.pendingPackets) - Len(ch.pendingPackets),
      hrBefore |-> ch.highestReceived, hrAfter |-> r.ch.highestReceived,
      slotBefore |-> Received(ch, seq % BUFFER_SIZE),
      origBefore |-> Received(ch, resendOf % BUFFER_SIZE),
      slotAfter |-> Received(r.ch, seq % BUFFER_SIZE),
      origAfter |-> Received(r.ch, resendOf % BUFFER_SIZE),
      ringBefore |-> ch.receivedSeqs, ringAfter |-> r.ch.receivedSeqs,
      ret |-> r.ret, closed |-> r.closed ]

(* The sub-packet loop of processReceivedPacket.                           *)
(* st = [ch, notes, calls, acks, closed, threw]                            *)
RECURSIVE ParseSubPackets(_, _, _)
ParseSubPackets(st, packet, seq) ==
    IF Len(packet) = 0 THEN st
    ELSE
      LET sizeA  == packet[1]
          resend == (sizeA \div 128) % 2 = 1
          long   == (sizeA \div 64) % 2 = 1
          p1     == Tail(packet)
      IN  IF long /\ Len(p1) < 1
          THEN [st EXCEPT !.threw = "Sub-packet header incomplete."]
          ELSE
            LET size == IF long THEN (sizeA % 64) * 256 + p1[1] ELSE sizeA % 64
                p2   == IF long THEN Tail(p1) ELSE p1
            IN  IF resend /\ Len(p2) < 2
                THEN [st EXCEPT !.threw = "Sub-packet header missing resend data"]
                ELSE
                  LET resendOf == IF resend THEN BytesU16(p2[1], p2[2]) ELSE 0
                      p3       == IF resend THEN SubSeq(p2, 3, Len(p2)) ELSE p2
                  IN  IF size > MaxSubPacketSize \/ size > Len(p3)
                      THEN [st EXCEPT !.threw = "Unexpected sub-packet size"]
                      ELSE
                        LET data == SubSeq(p3, 1, size)
                            rest == SubSeq(p3, size + 1, Len(p3))
                            r    == OnSeqReceived(st.ch, seq, resend, resendOf)
                            ch1  == IF r.ret
                                    THEN [r.ch EXCEPT !.pendingPackets = Append(@, data)]
                                    ELSE r.ch
                        IN  ParseSubPackets(
                              [st EXCEPT !.ch = ch1,
                                         !.calls = Append(@, SeqCall(st.ch, seq, resend, resendOf, data, r, ch1)),
                                         !.closed = @ \/ r.closed],
                              rest, U16(seq + 1))

NoEffects(ch) == [ch |-> ch, notes |-> <<>>, calls |-> <<>>, acks |-> <<>>,
                  closed |-> FALSE, threw |-> ""]

(* the sequences a header names: ack, and ack - (i + 1) for each set bit i *)
Named(ack, ackBits) == {ack} \cup {U16(ack - (i + 1)) : i \in ackBits}

(* one record of ackCalls *)
AckCall(ch, ack, ackBits, a) ==
    [ ack |-> ack, ackBits |-> ackBits, sequenceSent |-> ch.sequenceSent,
      notes |-> a.notes,
      wasWaiting |-> {s \in Named(ack, ackBits) : Sent(ch, s % BUFFER_SIZE).waiting},
      stillWaiting |-> {s \in Named(ack, ackBits) : Sent(a.ch, s % BUFFER_SIZE).waiting},
      changed |-> {i \in DOMAIN ch.sentPackets :
                      a.ch.sentPackets[i].waiting # ch.sentPackets[i].waiting},
      lagBefore |-> ch.lag, lagAfter |-> a.ch.lag ]

(* processReceivedPacket on the effects st accumulated so far *)
ProcessReceivedPacket(st, packet, t) ==
    IF Len(packet) < ReliableHeaderSize
    THEN [st EXCEPT !.threw = "Header not found."]
    ELSE
      LET sequence == BytesU16(packet[1], packet[2])
          ack      == BytesU16(packet[3], packet[4])
          ackBits  == BytesU32(SubSeq(packet, 5, 8))
          a        == ProcessReceivedAcks(st.ch, ack, ackBits, t)
      IN  ParseSubPackets([st EXCEPT !.ch = a.ch,
                                     !.notes = @ \o a.notes,
                                     !.acks = Append(@, AckCall(st.ch, ack, ackBits, a))],
                          SubSeq(packet, ReliableHeaderSize + 1, Len(packet)), sequence)

(* The loop of receive(): every datagram the parent holds is processed,    *)
(* in order; an exception leaves the rest in the parent's queue.  The      *)
(* queue is walked by halves, first the front half and then the back half, *)
(* which is the same order and keeps the evaluation shallow.               *)
RECURSIVE DrainParent(_, _, _)
DrainParent(st, queue, t) ==
    IF Len(queue) = 0 \/ st.threw # "" THEN [st |-> st, queue |-> queue]
    ELSE IF Len(queue) = 1
    THEN [ st    |-> ProcessReceivedPacket([st EXCEPT !.ch.lastReceive = t], queue[1], t),
           queue |-> <<>> ]
    ELSE LET h     == Len(queue) \div 2
             back  == SubSeq(queue, h + 1, Len(queue))
             front == DrainParent(st, SubSeq(queue, 1, h), t)
         IN  IF front.st.threw # ""
             THEN [st |-> front.st, queue |-> front.queue \o back]
             ELSE DrainParent(front.st, back, t)

(* receive() handing out the newest pending sub-packet instead of the      *)
(* oldest                                                                  *)
ReceiveNewestFirst(ch, queue, t) ==
    LET d   == DrainParent(NoEffects(ch), queue, t)
        st  == d.st
        got == st.threw = "" /\ Len(st.ch.pendingPackets) > 0
        n   == Len(st.ch.pendingPackets)
    IN  [ ch     |-> IF got THEN [st.ch EXCEPT !.pendingPackets = SubSeq(@, 1, n - 1)] ELSE st.ch,
          queue  |-> d.queue,
          got    |-> got,
          packet |-> IF got THEN st.ch.pendingPackets[n] ELSE <<>>,
          notes  |-> st.notes,
          calls  |-> st.calls,
          acks   |-> st.acks,
          closed |-> st.closed,
          threw  |-> st.threw ]

(* receive(): what it leaves behind.  ch is the channel after the call,   *)
(* queue what the parent still holds, got the value returned, packet the   *)
(* payload handed out when got.                                            *)
Receive(ch, queue, t) ==
    LET d   == DrainParent(NoEffects(ch), queue, t)
        st  == d.st
        got == st.threw = "" /\ Len(st.ch.pendingPackets) > 0
    IN  [ ch     |-> IF got THEN [st.ch EXCEPT !.pendingPackets = Tail(@)] ELSE st.ch,
          queue  |-> d.queue,
          got    |-> got,
          packet |-> IF got THEN Head(st.ch.pendingPackets) ELSE <<>>,
          notes  |-> st.notes,
          calls  |-> st.calls,
          acks   |-> st.acks,
          closed |-> st.closed,
          threw  |-> st.threw ]

(* the sub-header written by sendTagged (isResend is always false there) *)
SubHeader(size, isResend, resending) ==
    LET longSize == size >= 64
        sizeA == ((IF longSize THEN (size \div 256) % 64 ELSE size) % 256)
                 + (IF isResend THEN 128 ELSE 0)
        sizeB == IF longSize THEN size % 256 ELSE 0
        all   == <<sizeA, sizeB>> \o U16Bytes(resending)
    IN  SubSeq(all, 1, (IF longSize THEN 2 ELSE 1) + (IF isResend THEN 2 ELSE 0))

(* what sendTagged stores in the slot of the sequence it allocates *)
SentRecord(tag, t) == [waiting |-> TRUE, tag |-> tag, timestamp |-> t]

(* header.ack and header.ackBits of an outbound datagram, as bytes *)
AckFields(ch) == U16Bytes(ch.highestReceived) \o U32Bytes(GenerateAckBits(ch))

(* the datagram of sendTagged: reliable header, sub-header, payload *)
Framed(seq, ackFields, payload) ==
    AddHeader(AddHeader(payload, SubHeader(Len(payload), FALSE, 0)),
              U16Bytes(seq) \o ackFields)

(* sendTagged: [ch, packet]; packet is what is handed to parent->send *)
SendTagged(ch, payload, tag, t) ==
    LET seq == ch.sequenceSent
        idx == seq % BUFFER_SIZE
    IN  [ ch |-> [ch EXCEPT !.sequenceSent = U16(seq + 1),
                            !.sentPackets = SetSlot(@, idx, SentRecord(tag, t)),
                            !.lastSend = t],
          packet |-> Framed(seq, AckFields(ch), payload) ]

---------------------------------------------------------------------------
(* UDPConnection *)

CONNECTING == "CONNECTING"
OPEN == "OPEN"
CLOSING == "CLOSING"
CLOSED == "CLOSED"

(* "halley_accp" and its terminating zero: char handshake[12] *)
HandshakeMagic == <<104, 97, 108, 108, 101, 121, 95, 97, 99, 99, 112, 0>>

HandshakeSize == 14

I16(x) == IF x >= HalfSeq THEN x - SeqModulus ELSE x

(* struct HandshakeAccept as bytes *)
HandshakeAccept(id) == HandshakeMagic \o U16Bytes(id)

NewUDPConnection ==
    [ status         |-> CONNECTING,
      connectionId   |-> NoId,
      pendingSend    |-> <<>>,
      pendingReceive |-> <<>>,
      sendBuffer     |-> <<>>,
      inFlight       |-> 0 ]

UdpClose(u) == [u EXCEPT !.status = CLOSING]

UdpTerminate(u) == [u EXCEPT !.status = CLOSED]

UdpOnOpen(u, id) == [u EXCEPT !.connectionId = id, !.status = OPEN]

(* sendNext: the front packet is copied to sendBuffer and an asynchronous  *)
(* send of sendBuffer is started                                           *)
UdpSendNext(u) ==
    IF Len(u.pendingSend) = 0 THEN u
    ELSE [u EXCEPT !.sendBuffer = Head(u.pendingSend),
                   !.pendingSend = Tail(u.pendingSend),
                   !.inFlight = @ + 1]

UdpSend(u, packet) ==
    IF u.status = OPEN \/ u.status = CONNECTING
    THEN LET needsSend == Len(u.pendingSend) = 0
             u1 == [u EXCEPT !.pendingSend = Append(@, AddHeader(packet, <<255>>))]
         IN  IF needsSend THEN UdpSendNext(u1) ELSE u1
    ELSE u

(* the completion handler given to async_send_to *)
UdpSendCompleted(u, error) ==
    LET u1 == [u EXCEPT !.inFlight = @ - 1]
    IN  IF error THEN UdpClose(u1)
        ELSE IF Len(u1.pendingSend) > 0 THEN UdpSendNext(u1)
        ELSE u1

(* onReceive without the test of the datagram's size *)
UdpOnReceiveAnySize(u, data) ==
    IF u.status = CONNECTING
    THEN IF Len(data) >= 12 /\ SubSeq(data, 1, 12) = HandshakeMagic
         THEN UdpOnOpen(u, NoId)
         ELSE u
    ELSE IF u.status = OPEN
    THEN IF Len(data) <= MaxDatagram
         THEN [u EXCEPT !.pendingReceive = Append(@, data)]
         ELSE u
    ELSE u

UdpOnReceive(u, data) ==
    IF u.status = CONNECTING
    THEN IF Len(data) = HandshakeSize /\ SubSeq(data, 1, 12) = HandshakeMagic
         THEN UdpOnOpen(u, NoId)
         ELSE u
    ELSE IF u.status = OPEN
    THEN IF Len(data) <= MaxDatagram
         THEN [u EXCEPT !.pendingReceive = Append(@, data)]
         ELSE u
    ELSE u

UdpOpen(u, id) ==
    IF u.status = CONNECTING
    THEN UdpOnOpen(UdpSend(u, HandshakeAccept(id)), id)
    ELSE u

---------------------------------------------------------------------------
(* Inputs of the environment *)

(* a sub-packet as a remote encoder frames it *)
SubPacket(payload, isResend, resendOf) ==
    LET size   == Len(payload)
        long   == size >= 64
        sizeA  == (IF long THEN 64 + ((size \div 256) % 64) ELSE size)
                  + (IF isResend THEN 128 ELSE 0)
    IN  <<sizeA>> \o (IF long THEN <<size % 256>> ELSE <<>>)
        \o (IF isResend THEN U16Bytes(resendOf) ELSE <<>>) \o payload

NoAck == SeqModulus - 1

(* a datagram with one plain sub-packet and no acknowledgement of ours *)
DataDatagram(seq) == ReliableHeader(seq, NoAck, {}) \o SubPacket(<<seq % 256>>, FALSE, 0)

(* a datagram whose sub-packet is a resend of resendOf *)
ResendDatagram(seq, resendOf) ==
    ReliableHeader(seq, NoAck, {}) \o SubPacket(<<resendOf % 256>>, TRUE, resendOf)

(* a datagram with two plain sub-packets: sequences seq and seq + 1 *)
DoubleDatagram(seq) ==
    ReliableHeader(seq, NoAck, {}) \o SubPacket(<<seq % 256>>, FALSE, 0)
        \o SubPacket(<<(seq + 1) % 256>>, FALSE, 0)

(* a datagram that only acknowledges *)
AckDatagram(seq, ack, ackBits) == ReliableHeader(seq, ack, ackBits)

SeqInputs == {0, 88, 600, 992, 1025}

ResendInputs == {<<1, 0>>, <<2, 1>>, <<992, 0>>}

SeqDatagrams ==
    {DataDatagram(s) : s \in SeqInputs}
    \cup {ResendDatagram(p[1], p[2]) : p \in ResendInputs}
    \cup {DoubleDatagram(0)}

(* datagrams whose sub-packet framing is broken: a long size without its  *)
(* second byte, a resend flag without the resent sequence, a size beyond   *)
(* the bytes that follow, a size beyond the sub-packet limit               *)
MalformedDatagrams ==
    { ReliableHeader(0, NoAck, {}) \o <<64>>,
      ReliableHeader(0, NoAck, {}) \o <<129, 5>>,
      ReliableHeader(0, NoAck, {}) \o <<5, 1, 2>>,
      ReliableHeader(0, NoAck, {}) \o <<72, 1, 1, 2>> }

HandshakeIds == {5}

BadMagic == [i \in 1..12 |-> IF i = 12 THEN 1 ELSE HandshakeMagic[i]]

UdpDatagrams ==
    {HandshakeAccept(id) : id \in HandshakeIds}
    \cup {BadMagic \o U16Bytes(id) : id \in HandshakeIds}
    \cup {HandshakeAccept(id) \o <<0>> : id \in HandshakeIds}
    \cup {AckDatagram(0, 1, {0}), DataDatagram(0)}

OpenIds == {3}

SendPayload == <<7>>

(* the tag the application gives to the packet that gets sequence seq *)
TagOf(seq) == seq + 10

(* the listeners that register in Spec *)
SpecListeners == {"L1"}

Range(s) == {s[i] : i \in 1..Len(s)}

---------------------------------------------------------------------------
(* State after construction *)

NoOps == [recv |-> 0, send |-> 0, burst |-> 0, peerSend |-> 0, sendError |-> 0]

Init ==
    /\ rc = NewReliableConnection
    /\ peer = NewReliableConnection
    /\ udp = NewUDPConnection
    /\ now = 0
    /\ ackLog = [l \in Listeners |-> <<>>]
    /\ delivered = <<>>
    /\ seqTrace = <<>>
    /\ ackCalls = <<>>
    /\ lastIn = [data |-> <<>>, status |-> CONNECTING]
    /\ raised = ""
    /\ sentSizes = <<>>
    /\ wireAB = <<>>
    /\ wireBA = <<>>
    /\ nOps = NoOps

pairVars == <<peer, wireAB, wireBA>>

traceVars == <<ackLog, delivered, seqTrace, ackCalls, lastIn, raised, sentSizes>>

---------------------------------------------------------------------------
(* Operations of one endpoint: rc on top of udp *)

Tick ==
    /\ now < MaxTime
    /\ now' = now + 1
    /\ UNCHANGED <<rc, udp, traceVars, pairVars, nOps>>

AddAckListener(l) ==
    /\ l \notin Range(rc.ackListeners)
    /\ rc' = [rc EXCEPT !.ackListeners = Append(@, l)]
    /\ UNCHANGED <<udp, now, traceVars, pairVars, nOps>>

(* erase(find(...)): the first occurrence goes *)
RemoveAckListener(l) ==
    /\ l \in Range(rc.ackListeners)
    /\ LET k == CHOOSE i \in 1..Len(rc.ackListeners) :
                    /\ rc.ackListeners[i] = l
                    /\ \A j \in 1..(i - 1) : rc.ackListeners[j] # l
       IN  rc' = [rc EXCEPT !.ackListeners =
                     SubSeq(@, 1, k - 1) \o SubSeq(@, k + 1, Len(@))]
    /\ UNCHANGED <<udp, now, traceVars, pairVars, nOps>>

(* ReliableConnection::sendTagged over UDPConnection::send *)
AppSendTagged(tag) ==
    /\ nOps.send < MaxSends
    /\ \E r \in {SendTagged(rc, SendPayload, tag, now)} :
           /\ rc' = r.ch
           /\ udp' = UdpSend(udp, r.packet)
    /\ nOps' = [nOps EXCEPT !.send = @ + 1]
    /\ UNCHANGED <<now, traceVars, pairVars>>

(* the notifications of one handler reach every registered listener *)
Notify(log, listeners, notes) ==
    [l \in Listeners |->
        IF l \in Range(listeners) THEN log[l] \o notes ELSE log[l]]

(* ReliableConnection::receive over UDPConnection::receive *)
AppReceive ==
    /\ \E r \in {Receive(rc, udp.pendingReceive, now)} :
           /\ rc' = r.ch
           /\ udp' = IF r.closed
                     THEN UdpClose([udp EXCEPT !.pendingReceive = r.queue])
                     ELSE [udp EXCEPT !.pendingReceive = r.queue]
           /\ ackLog' = Notify(ackLog, rc.ackListeners, r.notes)
           /\ delivered' = IF r.got THEN Append(delivered, r.packet) ELSE delivered
           /\ seqTrace' = seqTrace \o r.calls
           /\ ackCalls' = ackCalls \o r.acks
           /\ raised' = r.threw
    /\ UNCHANGED <<now, lastIn, sentSizes, pairVars, nOps>>

(* the host hands a datagram of the network to UDPConnection::onReceive *)
NetOnReceive(data) ==
    /\ nOps.recv < MaxRecv
    /\ udp' = UdpOnReceive(udp, data)
    /\ nOps' = [nOps EXCEPT !.recv = @ + 1]
    /\ lastIn' = [data |-> data, status |-> udp.status]
    /\ UNCHANGED <<rc, now, ackLog, delivered, seqTrace, ackCalls, raised, sentSizes,
                   pairVars>>

Open(id) ==
    /\ udp' = UdpOpen(udp, id)
    /\ UNCHANGED <<rc, now, traceVars, pairVars, nOps>>

(* the socket completes one of the asynchronous sends *)
SendCompleted(error) ==
    /\ udp.inFlight > 0
    /\ udp' = UdpSendCompleted(udp, error)
    /\ nOps' = [nOps EXCEPT !.sendError = IF error THEN @ + 1 ELSE @]
    /\ UNCHANGED <<rc, now, traceVars, pairVars>>

(* ReliableConnection::close, which is UDPConnection::close *)
Close ==
    /\ udp' = UdpClose(udp)
    /\ UNCHANGED <<rc, now, traceVars, pairVars, nOps>>

TerminateConnection ==
    /\ udp' = UdpTerminate(udp)
    /\ UNCHANGED <<rc, now, traceVars, pairVars, nOps>>

Next ==
    \/ \E l \in SpecListeners : AddAckListener(l)
    \/ \E l \in SpecListeners : RemoveAckListener(l)
    \/ AppSendTagged(TagOf(rc.sequenceSent))
    \/ AppReceive
    \/ \E data \in UdpDatagrams : nOps.recv < MaxNetRecv /\ NetOnReceive(data)
    \/ \E id \in OpenIds : Open(id)
    \/ \E error \in BOOLEAN : SendCompleted(error)
    \/ Close
    \/ TerminateConnection

Spec == Init /\ [][Next]_vars

---------------------------------------------------------------------------
(* The receive path under a stream of sequence numbers *)

NextSeq ==
    \/ \E id \in OpenIds : Open(id)
    \/ \E data \in SeqDatagrams \cup MalformedDatagrams : NetOnReceive(data)
    \/ AppReceive

SpecSeq == Init /\ [][NextSeq]_vars

---------------------------------------------------------------------------
(* Two channels joined by a link that neither loses nor reorders: what rc  *)
(* hands to parent->send is what the peer's parent->receive returns, and   *)
(* the other way round.                                                    *)

PairBursts == {1, AckTooOld - 1}

PairListenerOrder == <<"L1", "L2">>

(* n calls of sendTagged in a row, 0 < n <= BUFFER_SIZE: [ch, out].  Call  *)
(* k (from 0) allocates sequence sequenceSent + k and writes its slot; no  *)
(* other call of the burst writes that slot, and none changes the fields   *)
(* the header's ack and ackBits are taken from.                            *)
SendBurst(ch, n, t) ==
    LET seq0      == ch.sequenceSent
        ackFields == AckFields(ch)
        callOf(i) == (i - seq0) % BUFFER_SIZE
        slots     == DOMAIN ch.sentPackets \cup {U16(seq0 + k) % BUFFER_SIZE : k \in 0..(n - 1)}
    IN  [ ch  |-> [ch EXCEPT !.sequenceSent = U16(seq0 + n),
                             !.sentPackets =
                                [i \in slots |->
                                    IF callOf(i) < n
                                    THEN SentRecord(TagOf(U16(seq0 + callOf(i))), t)
                                    ELSE ch.sentPackets[i]] @@ EmptyRing,
                             !.lastSend = t],
          out |-> [k \in 1..n |->
                     Framed(U16(seq0 + k - 1), ackFields, <<U16(seq0 + k - 1) % 256>>)] ]

(* the listeners register before the first send, in a fixed order *)
PairAddAckListener(l) ==
    /\ rc.sequenceSent = 0
    /\ Len(rc.ackListeners) < Len(PairListenerOrder)
    /\ l = PairListenerOrder[Len(rc.ackListeners) + 1]
    /\ AddAckListener(l)

PairSendBurst(n) ==
    /\ nOps.burst < MaxBursts
    /\ rc.sequenceSent + n <= MaxPairSent
    /\ Len(rc.ackListeners) = Len(PairListenerOrder)
    /\ Len(wireAB) = 0
    /\ \E r \in {SendBurst(rc, n, now)} :
           /\ rc' = r.ch
           /\ wireAB' = wireAB \o r.out
    /\ nOps' = [nOps EXCEPT !.burst = @ + 1]
    /\ UNCHANGED <<udp, now, traceVars, peer, wireBA>>

(* the peer's receive() *)
PeerReceive ==
    /\ Len(wireAB) > 0
    /\ \E r \in {Receive(peer, wireAB, 0)} :
           /\ peer' = r.ch
           /\ wireAB' = r.queue
    /\ UNCHANGED <<rc, udp, now, traceVars, wireBA, nOps>>

(* the peer's send(): a reply, once it has polled what rc sent *)
PeerSend ==
    /\ nOps.peerSend < MaxPeerSends
    /\ nOps.peerSend < nOps.burst
    /\ Len(wireAB) = 0
    /\ \E r \in {SendTagged(peer, SendPayload, 0, 0)} :
           /\ peer' = r.ch
           /\ wireBA' = Append(wireBA, r.packet)
    /\ nOps' = [nOps EXCEPT !.peerSend = @ + 1]
    /\ UNCHANGED <<rc, udp, now, traceVars, wireAB>>

(* rc's receive() *)
PairReceive ==
    /\ Len(wireBA) > 0
    /\ \E r \in {Receive(rc, wireBA, now)} :
           /\ rc' = r.ch
           /\ wireBA' = r.queue
           /\ ackLog' = Notify(ackLog, rc.ackListeners, r.notes)
           /\ delivered' = IF r.got THEN Append(delivered, r.packet) ELSE delivered
           /\ seqTrace' = seqTrace \o r.calls
           /\ ackCalls' = ackCalls \o r.acks
           /\ raised' = r.threw
    /\ UNCHANGED <<udp, now, lastIn, sentSizes, peer, wireAB, nOps>>

(* the clock of rc advances while a datagram of the peer is on its way *)
PairTick ==
    /\ Len(wireBA) > 0
    /\ Tick

NextPair ==
    \/ PairTick
    \/ \E l \in Listeners : PairAddAckListener(l)
    \/ \E n \in PairBursts : PairSendBurst(n)
    \/ PeerReceive
    \/ PeerSend
    \/ PairReceive

SpecPair == Init /\ [][NextPair]_vars

---------------------------------------------------------------------------
(* Properties *)

Count(seq, x) == Cardinality({i \in 1..Len(seq) : seq[i] = x})

NoRepeat(seq) == \A i, j \in 1..Len(seq) : i < j => seq[i] # seq[j]

(* the sequences of ours that the header of an ackCalls record names *)
NamedSent(call) == {s \in Named(call.ack, call.ackBits) : s < call.sequenceSent}

(* how far the ack of an ackCalls record lies behind sequenceSent *)
AckAge(call) == U16(call.sequenceSent - call.ack)

(* the tag of a named sequence is in the log of every listener once *)
ReportedOnce(call) ==
    \A s \in NamedSent(call) : \A l \in Range(rc.ackListeners) :
        Count(ackLog[l], TagOf(s)) = 1

(* C1, as stated: once rc has processed a header of the peer, the tag of   *)
(* every packet of rc that the header names has been reported to each      *)
(* registered listener exactly once, however many packets were outstanding *)
(* when the header arrived.                                                *)
C1_ExactlyOnceAnyBacklog ==
    /\ \A k \in 1..Len(ackCalls) : ReportedOnce(ackCalls[k])
    /\ \A l \in Listeners : NoRepeat(ackLog[l])

(* C1, amended: the same for the headers whose ack is at most 512 behind   *)
(* sequenceSent when they are processed; no tag is ever reported twice.    *)
C1_ExactlyOnceWithinWindow ==
    /\ \A k \in 1..Len(ackCalls) :
           AckAge(ackCalls[k]) <= AckTooOld => ReportedOnce(ackCalls[k])
    /\ \A l \in Listeners : NoRepeat(ackLog[l])

(* two processed headers name the same packet; both listeners have its tag *)
C1_Witness ==
    \E i, j \in 1..Len(ackCalls) :
        /\ i < j
        /\ AckAge(ackCalls[i]) <= AckTooOld
        /\ AckAge(ackCalls[j]) <= AckTooOld
        /\ NamedSent(ackCalls[i]) \cap NamedSent(ackCalls[j]) # {}
        /\ Range(rc.ackListeners) = Listeners
        /\ \A l \in Listeners : Len(ackLog[l]) > 0

(* C2: onSeqReceived returns true at most once for a sequence number,      *)
(* whatever arrived between the copies.                                    *)
C2_DeliveredAtMostOnce ==
    \A i, j \in 1..Len(seqTrace) :
        (i < j /\ seqTrace[i].seq = seqTrace[j].seq)
            => ~(seqTrace[i].ret /\ seqTrace[j].ret)

(* the sequence that bit i of generateAckBits stands for *)
SeqOfBit(ch, i) == U16(ch.highestReceived - (i + 1))

WasReceived(s) == \E k \in 1..Len(seqTrace) : seqTrace[k].seq = s

(* C3: a set bit i of generateAckBits names a sequence, highestReceived    *)
(* - (i + 1), of which a sub-packet reached onSeqReceived.                 *)
C3_NoFalsePositiveBit ==
    \A i \in GenerateAckBits(rc) : WasReceived(SeqOfBit(rc, i))

(* C4: every sequence 1..32 behind highestReceived of which a sub-packet   *)
(* reached onSeqReceived has its bit set in generateAckBits.               *)
C4_NoMissingBit ==
    \A i \in 0..(AckWindow - 1) :
        WasReceived(SeqOfBit(rc, i)) => i \in GenerateAckBits(rc)

(* the forward distance of a call of onSeqReceived *)
Ahead(call) == U16(call.seq - call.hrBefore)

(* C5: a call of onSeqReceived with BUFFER_SIZE - 32 < diff < 0x8000       *)
(* closes the connection, queues nothing and leaves highestReceived; one   *)
(* with 0 < diff <= BUFFER_SIZE - 32 does not close and makes              *)
(* highestReceived the sequence.  After a closing call the parent's status *)
(* is CLOSING.                                                             *)
C5_WindowSkipCloses ==
    /\ \A k \in 1..Len(seqTrace) :
          LET call == seqTrace[k]
          IN  /\ (Ahead(call) > BUFFER_SIZE - 32 /\ Ahead(call) < HalfSeq)
                    => /\ call.closed
                       /\ ~call.ret
                       /\ call.queued = 0
                       /\ call.hrAfter = call.hrBefore
              /\ (Ahead(call) > 0 /\ Ahead(call) <= BUFFER_SIZE - 32)
                    => /\ ~call.closed
                       /\ call.hrAfter = call.seq
    /\ (\E k \in 1..Len(seqTrace) : seqTrace[k].closed) => udp.status = CLOSING

(* a jump of 993 that closed, and a jump of 992 that was taken, in one run *)
C5_Witness ==
    /\ \E k \in 1..Len(seqTrace) :
          Ahead(seqTrace[k]) = 993 /\ seqTrace[k].closed
    /\ \E k \in 1..Len(seqTrace) :
          Ahead(seqTrace[k]) = 992 /\ seqTrace[k].hrAfter = seqTrace[k].seq
    /\ udp.status = CLOSING

(* C8: a resend that finds neither its slot nor the slot of its original   *)
(* marked is delivered and sets bit 0 of its slot and bit 1 of the         *)
(* original's; the original arriving later is dropped; and a resend whose  *)
(* original was delivered before is dropped.  (Calls that close the        *)
(* connection for a window skip are left aside.)                           *)
C8_ResendTagging ==
    \A k \in 1..Len(seqTrace) :
        LET call == seqTrace[k]
        IN  (call.isResend /\ ~call.closed) =>
              /\ (call.slotBefore = 0 /\ call.origBefore = 0) =>
                    /\ call.ret
                    /\ call.slotAfter % 2 = 1
                    /\ (call.origAfter \div 2) % 2 = 1
                    /\ \A j \in (k + 1)..Len(seqTrace) :
                          seqTrace[j].seq = call.resendOf => ~seqTrace[j].ret
              /\ (\E j \in 1..(k - 1) :
                     seqTrace[j].seq = call.resendOf /\ seqTrace[j].ret)
                    => ~call.ret

(* the sequence whose packet got the tag *)
SeqOfTag(tag) == tag - 10

(* C6: the notifications of one processed header come in increasing        *)
(* sequence order: each is for a sequence of the header, and lies nearer   *)
(* to ack than the one before it, ack itself coming last.                  *)
C6_NotifiedOldestFirst ==
    \A k \in 1..Len(ackCalls) :
        LET call    == ackCalls[k]
            back(n) == U16(call.ack - SeqOfTag(call.notes[n]))
        IN  /\ \A n \in 1..Len(call.notes) :
                  SeqOfTag(call.notes[n]) \in Named(call.ack, call.ackBits)
            /\ \A m, n \in 1..Len(call.notes) : m < n => back(m) > back(n)

(* tags 10, 11, 12 acknowledged by ack = 2, ackBits = 0b011 *)
C6_Witness ==
    \E k \in 1..Len(ackCalls) :
        /\ ackCalls[k].ack = 2
        /\ ackCalls[k].ackBits = {0, 1}
        /\ ackCalls[k].notes = <<10, 11, 12>>
        /\ \A l \in Listeners : ackLog[l] = <<10, 11, 12>>

(* C7: a header whose ack is more than 512 behind sequenceSent notifies    *)
(* nobody, changes no waiting flag and leaves lag; of any other header     *)
(* every named sequence that was waiting is notified and none waits on.    *)
C7_TooOldIgnored ==
    \A k \in 1..Len(ackCalls) :
        LET call == ackCalls[k]
        IN  IF AckAge(call) > 512
            THEN /\ call.notes = <<>>
                 /\ call.changed = {}
                 /\ call.stillWaiting = call.wasWaiting
                 /\ call.lagAfter = call.lagBefore
            ELSE /\ call.stillWaiting = {}
                 /\ {SeqOfTag(call.notes[n]) : n \in 1..Len(call.notes)} = call.wasWaiting
                 /\ Len(call.notes) = Cardinality(call.wasWaiting)

(* one header 513 behind, ignored though its packet waits, and one 512     *)
(* behind, processed, with a latency sample taken                          *)
C7_Witness ==
    /\ \E k \in 1..Len(ackCalls) :
          /\ AckAge(ackCalls[k]) = 513
          /\ ackCalls[k].wasWaiting # {}
          /\ ackCalls[k].notes = <<>>
    /\ \E k \in 1..Len(ackCalls) :
          /\ AckAge(ackCalls[k]) = 512
          /\ ackCalls[k].notes # <<>>
          /\ ackCalls[k].lagAfter # ackCalls[k].lagBefore

(* the place of a status in Connecting -> Open -> Closing -> Closed *)
Rank(status) ==
    IF status = CONNECTING THEN 0
    ELSE IF status = OPEN THEN 1
    ELSE IF status = CLOSING THEN 2
    ELSE 3

(* C9: no step takes the status of the UDPConnection to an earlier state   *)
(* of Connecting -> Open -> Closing -> Closed.                             *)
C9_StatusNeverGoesBack == [][Rank(udp'.status) >= Rank(udp.status)]_vars

(* the 16-bit id a handshake datagram carries *)
CarriedId(data) == I16(BytesU16(data[13], data[14]))

IsHandshake(data) ==
    Len(data) = HandshakeSize /\ SubSeq(data, 1, 12) = HandshakeMagic

(* C10: onReceive in CONNECTING with a datagram of the handshake's size    *)
(* that starts with the magic leaves the connection OPEN with the id the   *)
(* datagram carries as its connectionId.                                   *)
C10_HandshakeAdoptsId ==
    [][(/\ nOps'.recv = nOps.recv + 1
        /\ udp.status = CONNECTING
        /\ IsHandshake(lastIn'.data))
          => (/\ udp'.status = OPEN
              /\ udp'.connectionId = CarriedId(lastIn'.data))]_vars

(* C11: at most one asynchronous send of the socket is in flight: sendNext *)
(* is not run again before the completion handler of the send it started.  *)
C11_OneSendInFlight == udp.inFlight <= 1

---------------------------------------------------------------------------
(* Framing: rc sends payloads of chosen sizes to the peer over a link that *)
(* neither loses nor reorders; the peer's receive() parses them.           *)

FrameSizes == {0, 1, 63, 64, 65, 255, 256, 2047, 2048}

FramePayload(size) == [i \in 1..size |-> i % 251]

FrameSend(size) ==
    /\ nOps.send < MaxSends
    /\ \E r \in {SendTagged(rc, FramePayload(size), TagOf(rc.sequenceSent), now)} :
           /\ rc' = r.ch
           /\ wireAB' = Append(wireAB, r.packet)
    /\ sentSizes' = Append(sentSizes, size)
    /\ nOps' = [nOps EXCEPT !.send = @ + 1]
    /\ UNCHANGED <<udp, now, ackLog, delivered, seqTrace, ackCalls, lastIn, raised,
                   peer, wireBA>>

(* the peer's receive(), with what it parsed and threw kept *)
FrameReceive ==
    /\ Len(wireAB) > 0
    /\ \E r \in {Receive(peer, wireAB, 0)} :
           /\ peer' = r.ch
           /\ wireAB' = r.queue
           /\ delivered' = IF r.got THEN Append(delivered, r.packet) ELSE delivered
           /\ seqTrace' = seqTrace \o r.calls
           /\ raised' = r.threw
    /\ UNCHANGED <<rc, udp, now, ackLog, ackCalls, lastIn, sentSizes, wireBA, nOps>>

NextFrame ==
    \/ \E size \in FrameSizes : FrameSend(size)
    \/ FrameReceive

SpecFrame == Init /\ [][NextFrame]_vars

(* C12: once the peer has polled every datagram of rc, it has parsed,      *)
(* without an exception, one sub-packet for each sendTagged call, with the *)
(* sequence of the call and the size of its payload.                       *)
C12_FramingRoundTrip ==
    Len(wireAB) = 0 =>
        /\ raised = ""
        /\ Len(seqTrace) = Len(sentSizes)
        /\ \A k \in 1..Len(seqTrace) :
              /\ seqTrace[k].seq = k - 1
              /\ seqTrace[k].size = sentSizes[k]

(* C13: after a receive() that threw a parse error the underlying          *)
(* connection has been closed: its status is no longer OPEN.               *)
C13_ParseErrorCloses == raised # "" => udp.status # OPEN

(* the connection id as the one leading byte of a datagram *)
IdByte(id) == id % 256

(* the packet that a call of UDPConnection::send has just queued or sent *)
JustSent(before, after) ==
    IF after.inFlight > before.inFlight THEN after.sendBuffer
    ELSE after.pendingSend[Len(after.pendingSend)]

(* C14: a packet that send() accepts goes out with a first byte equal to   *)
(* the connectionId of the connection at the time of the call.             *)
C14_LeadingByteIsConnectionId ==
    [][(/\ nOps'.send = nOps.send + 1
        /\ udp.status \in {OPEN, CONNECTING})
          => JustSent(udp, udp')[1] = IdByte(udp.connectionId)]_vars

(* C15: once a send of the socket has completed with an error, the status  *)
(* is CLOSING or CLOSED, and no later step notifies a listener or takes a  *)
(* sent slot out of waiting.                                               *)
C15_NoAckAfterSendError ==
    [][nOps.sendError > 0 =>
          /\ udp.status \in {CLOSING, CLOSED}
          /\ ackLog' = ackLog
          /\ \A i \in DOMAIN rc.sentPackets :
                rc.sentPackets[i].waiting => rc'.sentPackets[i].waiting]_vars

---------------------------------------------------------------------------
(* The pair of channels shortly before sequenceSent of rc wraps.  The      *)
(* state it starts in is the one reached when rc, its listeners            *)
(* registered, has sent WrapStart packets one by one, the peer has polled  *)
(* each of them as it came and has never sent anything itself.             *)

WrapStart == SeqModulus - 2

(* sentPackets of rc then: every slot holds the last send that wrote it *)
WrapSentPackets ==
    [i \in 0..(BUFFER_SIZE - 1) |->
        SentRecord(TagOf(WrapStart - 1 - ((WrapStart - 1 - i) % BUFFER_SIZE)), 0)]

(* receivedSeqs of the peer then: the advance to a sequence s clears the   *)
(* slot of s - 1 + BUFFER_SIZE / 2 and marks the slot of s, which leaves   *)
(* the marks of the last BUFFER_SIZE / 2 + 1 sequences                     *)
WrapReceivedSeqs ==
    [i \in {s % BUFFER_SIZE : s \in (WrapStart - 1 - BUFFER_SIZE \div 2)..(WrapStart - 1)} |-> 1]

InitWrap ==
    /\ rc = [NewReliableConnection EXCEPT !.sequenceSent = WrapStart,
                                          !.sentPackets = WrapSentPackets,
                                          !.ackListeners = PairListenerOrder]
    /\ peer = [NewReliableConnection EXCEPT !.highestReceived = WrapStart - 1,
                                            !.receivedSeqs = WrapReceivedSeqs]
    /\ udp = NewUDPConnection
    /\ now = 0
    /\ ackLog = [l \in Listeners |-> <<>>]
    /\ delivered = <<>>
    /\ seqTrace = <<>>
    /\ ackCalls = <<>>
    /\ lastIn = [data |-> <<>>, status |-> CONNECTING]
    /\ raised = ""
    /\ sentSizes = <<>>
    /\ wireAB = <<>>
    /\ wireBA = <<>>
    /\ nOps = NoOps

WrapSendBurst(n) ==
    /\ nOps.burst < MaxBursts
    /\ U16(rc.sequenceSent - WrapStart) + n <= MaxPairSent
    /\ Len(wireAB) = 0
    /\ \E r \in {SendBurst(rc, n, now)} :
           /\ rc' = r.ch
           /\ wireAB' = wireAB \o r.out
    /\ nOps' = [nOps EXCEPT !.burst = @ + 1]
    /\ UNCHANGED <<udp, now, traceVars, peer, wireBA>>

NextWrap ==
    \/ \E n \in PairBursts : WrapSendBurst(n)
    \/ PeerReceive
    \/ PeerSend
    \/ PairReceive

SpecWrap == InitWrap /\ [][NextWrap]_vars

(* each end has advanced highestReceived to the last sequence of the other *)
(* once it has polled what the other sent                                  *)
HighestFollows ==
    /\ Len(wireAB) = 0 => peer.highestReceived = U16(rc.sequenceSent - 1)
    /\ Len(wireBA) = 0 => rc.highestReceived = U16(peer.sequenceSent - 1)

(* the notifications of a processed header are the tags of the sequences   *)
(* it names that were waiting, each once, and none of them waits on        *)
TaggedRight(call) ==
    /\ \A n \in 1..Len(call.notes) : SeqOfTag(call.notes[n]) \in call.wasWaiting
    /\ \A s \in call.wasWaiting : Count(call.notes, TagOf(s)) = 1
    /\ call.stillWaiting = {}

(* C16, as stated: across the wrap each end takes the sequences past it as *)
(* ahead, and every header notifies the tag of each waiting sequence it    *)
(* names and no other tag.                                                 *)
C16_WrapTagging ==
    /\ HighestFollows
    /\ \A k \in 1..Len(ackCalls) : TaggedRight(ackCalls[k])

(* C16, amended: the same for the headers whose ack is at most 512 behind  *)
(* sequenceSent when they are processed.                                   *)
C16_WrapTaggingWithinWindow ==
    /\ HighestFollows
    /\ \A k \in 1..Len(ackCalls) :
          AckAge(ackCalls[k]) <= AckTooOld => TaggedRight(ackCalls[k])

(* both ends are past the wrap and one header named sequences on both      *)
(* sides of it, all notified                                               *)
C16_Witness ==
    /\ rc.sequenceSent < WrapStart
    /\ peer.highestReceived < WrapStart - 1
    /\ rc.highestReceived < SeqModulus - 1
    /\ \E k \in 1..Len(ackCalls) :
          /\ {SeqModulus - 1, 0} \subseteq ackCalls[k].wasWaiting
          /\ ackCalls[k].stillWaiting = {}
          /\ Count(ackCalls[k].notes, TagOf(SeqModulus - 1)) = 1
          /\ Count(ackCalls[k].notes, TagOf(0)) = 1
    /\ \A l \in Listeners : Count(ackLog[l], TagOf(0)) = 1

(* the value of a slot in a ring kept in a seqTrace record *)
SlotOf(ring, j) == IF j \in DOMAIN ring THEN ring[j] ELSE 0

(* the slots (i + BUFFER_SIZE / 2) mod BUFFER_SIZE for the loop values i *)
HalfAhead(loop) == {(i + BUFFER_SIZE \div 2) % BUFFER_SIZE : i \in loop}

(* the loop values from prev up to but not including seq, modulo BUFFER_SIZE *)
FromStartToBeforeEnd(prev, seq) ==
    {i \in 0..(BUFFER_SIZE - 1) : (i - prev) % BUFFER_SIZE < (seq - prev) % BUFFER_SIZE}

(* the loop values after prev up to and including seq, modulo BUFFER_SIZE *)
AfterStartToEnd(prev, seq) ==
    {i \in 0..(BUFFER_SIZE - 1) :
        (i - prev) % BUFFER_SIZE > 0 /\ (i - prev) % BUFFER_SIZE <= (seq - prev) % BUFFER_SIZE}

(* a call that advanced highestReceived left the slots of zeroed at 0 and  *)
(* every other slot as it was; the slots the call marks are left aside     *)
RotatedBy(call, zeroed) ==
    \A j \in (DOMAIN call.ringBefore \cup DOMAIN call.ringAfter)
                \ {call.seq % BUFFER_SIZE, call.resendOf % BUFFER_SIZE} :
        SlotOf(call.ringAfter, j) = IF j \in zeroed THEN 0 ELSE SlotOf(call.ringBefore, j)

Advanced(call) == call.hrAfter # call.hrBefore

(* C17, as stated: an advance from prev to seq zeroes exactly the slots    *)
(* half a ring ahead of the i after prev mod BUFFER_SIZE up to and         *)
(* including seq mod BUFFER_SIZE.                                          *)
C17_RotationAfterStartToEnd ==
    \A k \in 1..Len(seqTrace) :
        Advanced(seqTrace[k]) =>
            RotatedBy(seqTrace[k], HalfAhead(AfterStartToEnd(seqTrace[k].hrBefore, seqTrace[k].seq)))

(* C17, amended: it zeroes exactly the slots half a ring ahead of the i    *)
(* from prev mod BUFFER_SIZE, included, up to seq mod BUFFER_SIZE,         *)
(* excluded.                                                               *)
C17_RotationFromStartToBeforeEnd ==
    \A k \in 1..Len(seqTrace) :
        Advanced(seqTrace[k]) =>
            RotatedBy(seqTrace[k], HalfAhead(FromStartToBeforeEnd(seqTrace[k].hrBefore, seqTrace[k].seq)))

(* an advance that zeroed a marked slot: the one half a ring ahead of prev *)
C17_Witness ==
    \E k \in 1..Len(seqTrace) :
        LET call == seqTrace[k]
            j    == (call.hrBefore + BUFFER_SIZE \div 2) % BUFFER_SIZE
        IN  /\ Advanced(call)
            /\ SlotOf(call.ringBefore, j) # 0
            /\ SlotOf(call.ringAfter, j) = 0
            /\ j # call.seq % BUFFER_SIZE

(* the payloads of the sub-packets onSeqReceived accepted, in call order *)
AcceptedData ==
    LET acc == SelectSeq(seqTrace, LAMBDA call : call.ret)
    IN  [k \in 1..Len(acc) |-> acc[k].data]

(* a step of receive() in SpecSeq: neither onReceive nor open *)
IsReceiveStep == nOps' = nOps /\ udp'.connectionId = udp.connectionId

(* C18: what receive() has handed out so far, followed by what is pending, *)
(* is the payloads of the accepted sub-packets in the order in which       *)
(* onSeqReceived accepted them; a call of receive() that does not throw    *)
(* leaves nothing queued in the parent, hands out at most one sub-packet,  *)
(* and none only when none is pending.                                     *)
C18_DrainThenOneInOrder ==
    /\ [](delivered \o rc.pendingPackets = AcceptedData)
    /\ [][IsReceiveStep =>
            /\ Len(delivered') <= Len(delivered) + 1
            /\ raised' = "" => udp'.pendingReceive = <<>>
            /\ (raised' = "" /\ delivered' = delivered) => rc'.pendingPackets = <<>>]_vars

(* the two sub-packets of one datagram handed out by two calls, in their   *)
(* order, the sub-packet of a later datagram still pending                 *)
C18_Witness ==
    /\ delivered = <<<<0>>, <<1>>>>
    /\ Len(rc.pendingPackets) = 1
    /\ Len(seqTrace) = 3
    /\ udp.pendingReceive = <<>>

(* C19: onReceive in CONNECTING with a datagram that is not of the         *)
(* handshake's size or does not start with the magic leaves the status     *)
(* CONNECTING, the connectionId -1 and the receive queue as it was.        *)
C19_MismatchIgnored ==
    [][(/\ nOps'.recv = nOps.recv + 1
        /\ udp.status = CONNECTING
        /\ ~IsHandshake(lastIn'.data))
          => (/\ udp'.status = CONNECTING
              /\ udp'.connectionId = -1
              /\ udp'.pendingReceive = udp.pendingReceive
              /\ udp'.pendingReceive = <<>>)]_vars

(* a datagram that starts with the magic and is one byte longer than the   *)
(* handshake was given to a connection that was, and still is, CONNECTING  *)
C19_Witness ==
    /\ nOps.recv > 0
    /\ udp.status = CONNECTING
    /\ lastIn.status = CONNECTING
    /\ Len(lastIn.data) = HandshakeSize + 1
    /\ SubSeq(lastIn.data, 1, 12) = HandshakeMagic

(* C20: in a stream without a jump beyond BUFFER_SIZE - 32, a sub-packet   *)
(* that is no resend, whose sequence did not arrive before and was not the *)
(* resendOf of an earlier resend, is accepted by onSeqReceived and queued  *)
(* for delivery.                                                           *)
C20_NoFalseDrop ==
    \A k \in 1..Len(seqTrace) :
        LET call == seqTrace[k]
        IN  (/\ ~call.isResend
             /\ \A j \in 1..k : ~seqTrace[j].closed
             /\ \A j \in 1..(k - 1) :
                   /\ seqTrace[j].seq # call.seq
                   /\ ~(seqTrace[j].isResend /\ seqTrace[j].resendOf = call.seq))
              => (call.ret /\ call.queued = 1)

====
